---- MODULE Spec2Model ----
(***************************************************************************)
(* The AST printer of the Vixen language front end (parser/ast_printer.rs) *)
(* over the AST model of parser/ast.rs.                                    *)
(*                                                                         *)
(* Text is a sequence of tokens.  A token is a word, a name, or one of the *)
(* separators ":", " ", ".", ",", "<", ">", "-", "\n"; every colon and     *)
(* every line break of the program's strings is a token of its own, so the *)
(* concatenation of token sequences is the concatenation of the strings    *)
(* and splitn(2, ':') is a split at the first ":" token.                   *)
(***************************************************************************)
EXTENDS Integers, Sequences, FiniteSets, TLC

VARIABLES
    indent,     \* ASTPrinter.indent
    pc,         \* "idle": no call in flight; "loop": inside print_program
    program,    \* print_program's argument
    idx,        \* position of print_program's for loop in program.declarations
    output,     \* print_program's local output
    calls,      \* print_program calls completed on this instance
    incs,       \* history: executions of `self.indent += 1` during the call
    decs,       \* history: executions of `self.indent -= 1` during the call
    neg,        \* history: a decrement was executed with indent = 0
    log,        \* history: the print_* calls of the call, in call order
    segs        \* history: the fmt_indent! expansions of the call

vars == <<indent, pc, program, idx, output, calls, incs, decs, neg, log, segs>>

\* Calls made on one printer instance.
MaxCalls == 2
\* Declarations of a program built from the core declarations.
MaxDecls == 2

----------------------------------------------------------------------------
(* ast_printer.rs: constants and the fmt_indent! macro                     *)

ANSI_GRAY == "ESC[90m"
ANSI_BOLD == "ESC[1m"
ANSI_RESET == "ESC[0m"

GuideToken == "|  "

\* for _ in 0..indent { output.push_str("|  ") }
Guides_short(n) == [i \in 1..(n - 1) |-> GuideToken]
Guides(n) == [i \in 1..n |-> GuideToken]

\* Position of the first ":" of val, 0 when there is none.
FirstColon(val) ==
    IF \E i \in 1..Len(val) : val[i] = ":"
    THEN CHOOSE i \in 1..Len(val) :
            val[i] = ":" /\ \A j \in 1..(i - 1) : val[j] # ":"
    ELSE 0

\* fmt_indent!: val is the text format! produced.
FmtIndent(n, val) ==
    LET c == FirstColon(val)
        first_part == IF c = 0 THEN val ELSE SubSeq(val, 1, c - 1)
        second_part == IF c = 0 THEN <<>> ELSE SubSeq(val, c + 1, Len(val))
    IN  <<ANSI_GRAY>> \o Guides(n) \o <<ANSI_RESET>>
        \o <<ANSI_BOLD>> \o first_part \o <<ANSI_RESET>>
        \o (IF c = 0 THEN <<>> ELSE <<":">> \o second_part)

\* path.join("."), and the ", " join of print_type's generic arguments.
RECURSIVE Join(_, _)
Join(parts, sep) ==
    IF parts = <<>> THEN <<>>
    ELSE IF Len(parts) = 1 THEN parts[1]
    ELSE parts[1] \o sep \o Join(Tail(parts), sep)

----------------------------------------------------------------------------
(* The printer's state while a call runs, and a partial result:            *)
(* r.str is the String built so far, r.st the state it was built in.       *)

R(str, st) == [str |-> str, st |-> st]

\* self.indent += 1
IndentInc(st) == [st EXCEPT !.indent = @ + 1, !.incs = @ + 1]

\* self.indent -= 1 (usize: below zero the debug build panics and the
\* release build wraps; neg records that it happened).
IndentDec(st) ==
    [st EXCEPT !.indent = IF @ = 0 THEN 0 ELSE @ - 1,
               !.decs = @ + 1,
               !.neg = @ \/ (st.indent = 0)]

Inc(r) == [r EXCEPT !.st = IndentInc(@)]
Dec(r) == [r EXCEPT !.st = IndentDec(@)]

\* output.push_str(&fmt_indent!(self, val))
Push(r, val) ==
    LET out == FmtIndent(r.st.indent, val)
    IN  R(r.str \o out,
          [r.st EXCEPT !.segs =
              Append(@, [depth |-> r.st.indent, val |-> val, out |-> out])])

\* output.push_str(&sub) for the result sub of a nested print_* call
Then(r, sub) == R(r.str \o sub.str, sub.st)

\* Entry and exit of a print_* call on node: one log record per call, with
\* the depth at entry, the String returned, the index of the last call made
\* inside it and the increments executed inside it.
Enter(st, fn, node) ==
    [st EXCEPT !.log =
        Append(@, [fn |-> fn, node |-> node, depth |-> st.indent, str |-> <<>>,
                   last |-> 0, incs |-> st.incs])]
Exit(r, k) ==
    R(r.str, [r.st EXCEPT !.log[k].str = r.str,
                          !.log[k].last = Len(r.st.log),
                          !.log[k].incs = r.st.incs - @])

----------------------------------------------------------------------------
(* ast.rs: the Display implementations of the operators                    *)

BinaryOperatorDisplay(op) ==
    CASE op = "Add" -> "+"
      [] op = "Subtract" -> "-"
      [] op = "Multiply" -> "*"
      [] op = "Divide" -> "/"
      [] op = "Modulus" -> "%"
      [] op = "And" -> "&&"
      [] op = "Or" -> "||"
      [] op = "Equal" -> "=="
      [] op = "NotEqual" -> "!="
      [] op = "LessThan" -> "<"
      [] op = "GreaterThan" -> ">"
      [] op = "LessThanOrEqual" -> "<="
      [] op = "GreaterThanOrEqual" -> ">="

UnaryOperatorDisplay(op) ==
    CASE op = "Negate" -> "-"
      [] op = "Not" -> "!"

\* VariableMutability as print_expression and print_statement write it
MutabilityText(m) ==
    CASE m = "Mutable" -> "Mutable"
      [] m = "Immutable" -> "Immutable"

----------------------------------------------------------------------------
(* The body of a print_* function is the sequence of its statements, in    *)
(* source order; Exec runs them on the printer's state.                    *)

\* output.push_str(&fmt_indent!(self, val))
FmtI(val) == [op |-> "fmt", val |-> val]
\* output.push_str(&fmt_indent!(self, "<pre>{}<post>", self.print_type(ty)))
FmtTypeI(pre, ty, post) == [op |-> "fmt_type", pre |-> pre, ty |-> ty, post |-> post]
\* output.push_str(text), output.push(char)
RawI(text) == [op |-> "raw", val |-> text]
\* self.indent += 1, self.indent -= 1
IncI == [op |-> "inc"]
DecI == [op |-> "dec"]
\* output.push_str(&self.print_*(node))
TypeI(ty) == [op |-> "print_type", node |-> ty]
DeclI(d) == [op |-> "print_declaration", node |-> d]
ExprI(e) == [op |-> "print_expression", node |-> e]
StmtI(s) == [op |-> "print_statement", node |-> s]

RECURSIVE Concat(_)
Concat(seqs) == IF seqs = <<>> THEN <<>> ELSE Head(seqs) \o Concat(Tail(seqs))

\* if cond { ops }
When(cond, ops) == IF cond THEN ops ELSE <<>>

----------------------------------------------------------------------------
(* ast_printer.rs: print_type                                              *)

PrimitiveName(kind) ==
    CASE kind = "Boolean" -> "Boolean"
      [] kind = "Character" -> "Character"
      [] kind = "F32" -> "F32"
      [] kind = "F64" -> "F64"
      [] kind = "I8" -> "I8"
      [] kind = "I16" -> "I16"
      [] kind = "I32" -> "I32"
      [] kind = "I64" -> "I64"
      [] kind = "U8" -> "U8"
      [] kind = "U16" -> "U16"
      [] kind = "U32" -> "U32"
      [] kind = "U64" -> "U64"
      [] kind = "Nil" -> "Nil"

\* generic_args.iter().map(|arg| self.print_type(arg)).collect::<Vec<_>>().join(", ")
JoinedTypes(args) ==
    Concat([i \in 1..Len(args) |->
              When(i > 1, <<RawI(<<",", " ">>)>>) \o <<TypeI(args[i])>>])

PrintTypeIdentifier(ty) ==
    <<RawI(ty.name)>>
    \o When(ty.generics # <<>>,
            <<RawI(<<"<">>)>> \o JoinedTypes(ty.generics) \o <<RawI(<<">">>)>>)

PrintTypeArray_inline(ty) ==
    <<RawI(<<"Array of", " ">>), TypeI(ty.of)>>
PrintTypeArray(ty) ==
    <<RawI(<<"\n">>),
      FmtI(<<"Array of", " ">>),
      IncI,
      TypeI(ty.of),
      DecI>>

PrintTypeFunction(ty) ==
    <<FmtI(<<"Function", ":", "\n">>),
      IncI,
      FmtI(<<"Parameters", ":", "\n">>)>>
    \o [i \in 1..Len(ty.params) |-> FmtTypeI(<<"-", " ">>, ty.params[i], <<"\n">>)]
    \o <<FmtTypeI(<<"Return Type", ":", " ">>, ty.return_type, <<"\n">>),
         DecI>>

PrintTypeBody(ty) ==
    CASE ty.kind = "Identifier" -> PrintTypeIdentifier(ty)
      [] ty.kind = "Array" -> PrintTypeArray(ty)
      [] ty.kind = "Function" -> PrintTypeFunction(ty)
      [] OTHER -> <<RawI(<<PrimitiveName(ty.kind)>>)>>

----------------------------------------------------------------------------
(* ast_printer.rs: print_declaration                                       *)

PrintFunction_bodyFirst(d) ==
    <<FmtI(<<"Function", ":", " ">> \o d.name \o <<"\n">>),
      IncI,
      FmtI(<<"Body", ":", " ">>),
      ExprI(d.body),
      FmtI(<<"Parameters", ":", "\n">>)>>
    \o [i \in 1..Len(d.params) |->
          FmtTypeI(<<"-", " ">> \o d.params[i].name \o <<":", " ">>,
                   d.params[i].param_type, <<"\n">>)]
    \o <<FmtTypeI(<<"Return Type", ":", " ">>, d.return_type, <<"\n">>),
         DecI>>
PrintFunction(d) ==
    <<FmtI(<<"Function", ":", " ">> \o d.name \o <<"\n">>),
      IncI,
      FmtI(<<"Parameters", ":", "\n">>)>>
    \o [i \in 1..Len(d.params) |->
          FmtTypeI(<<"-", " ">> \o d.params[i].name \o <<":", " ">>,
                   d.params[i].param_type, <<"\n">>)]
    \o <<FmtTypeI(<<"Return Type", ":", " ">>, d.return_type, <<"\n">>),
         FmtI(<<"Body", ":", " ">>),
         ExprI(d.body),
         DecI>>

PrintImport_nested(d) ==
    <<IncI, FmtI(<<"Import", ":", " ">> \o Join(d.path, <<".">>) \o <<"\n">>), DecI>>
PrintImport(d) ==
    <<FmtI(<<"Import", ":", " ">> \o Join(d.path, <<".">>) \o <<"\n">>)>>

PrintStructElement(element) ==
    CASE element.kind = "Field" ->
            FmtTypeI(<<"-", " ">> \o element.name \o <<":", " ">>,
                     element.field_type, <<"\n">>)
      [] element.kind = "Declaration" -> DeclI(element.declaration)

PrintStruct_generics(d) ==
    <<FmtI(<<"Struct", ":", " ">> \o d.name \o <<"\n">>),
      IncI>>
    \o When(d.generic_args # <<>>,
            <<FmtI(<<"Generic Arguments", ":", "\n">>)>>
            \o [i \in 1..Len(d.generic_args) |->
                  FmtI(<<"-", " ">> \o d.generic_args[i] \o <<"\n">>)])
    \o <<FmtI(<<"Elements", ":", "\n">>)>>
    \o [i \in 1..Len(d.elements) |-> PrintStructElement(d.elements[i])]
    \o <<DecI>>
PrintStruct(d) ==
    <<FmtI(<<"Struct", ":", " ">> \o d.name \o <<"\n">>),
      IncI,
      FmtI(<<"Elements", ":", "\n">>)>>
    \o [i \in 1..Len(d.elements) |-> PrintStructElement(d.elements[i])]
    \o <<DecI>>

PrintTypeDeclaration_always(d) ==
    <<FmtI(<<"Type Declaration", ":", " ">> \o d.name \o <<"\n">>),
      IncI,
      FmtTypeI(<<"Alias", ":", " ">>, d.alias, <<"\n">>),
      FmtI(<<"Generic Arguments", ":", "\n">>)>>
    \o [i \in 1..Len(d.generic_args) |->
          FmtI(<<"-", " ">> \o d.generic_args[i] \o <<"\n">>)]
    \o <<DecI>>
PrintTypeDeclaration(d) ==
    <<FmtI(<<"Type Declaration", ":", " ">> \o d.name \o <<"\n">>),
      IncI,
      FmtTypeI(<<"Alias", ":", " ">>, d.alias, <<"\n">>)>>
    \o When(d.generic_args # <<>>,
            <<FmtI(<<"Generic Arguments", ":", "\n">>)>>
            \o [i \in 1..Len(d.generic_args) |->
                  FmtI(<<"-", " ">> \o d.generic_args[i] \o <<"\n">>)])
    \o <<DecI>>

PrintDeclarationBody(d) ==
    CASE d.kind = "Function" -> PrintFunction(d)
      [] d.kind = "Import" -> PrintImport(d)
      [] d.kind = "Struct" -> PrintStruct(d)
      [] d.kind = "TypeDeclaration" -> PrintTypeDeclaration(d)

----------------------------------------------------------------------------
(* ast_printer.rs: print_expression                                        *)

PrintAssignment(e) ==
    <<FmtI(<<"Assignment", ":", "\n">>),
      IncI,
      FmtI(<<"Variable", ":", " ">> \o e.name \o <<"\n">>),
      FmtI(<<"Value", ":", "\n">>),
      ExprI(e.value),
      DecI>>

PrintBinaryOperation(e) ==
    <<FmtI(<<"Binary Operation", ":", " ", BinaryOperatorDisplay(e.operator), "\n">>),
      IncI,
      FmtI(<<"Left", ":", "\n">>),
      ExprI(e.left),
      FmtI(<<"Right", ":", "\n">>),
      ExprI(e.right),
      DecI>>

PrintUnaryOperation(e) ==
    <<FmtI(<<"Unary Operation", ":", " ", UnaryOperatorDisplay(e.operator), "\n">>),
      IncI,
      FmtI(<<"Operand", ":", "\n">>),
      ExprI(e.operand),
      DecI>>

PrintBlock_noDec(e) ==
    <<FmtI(<<"Block", ":", "\n">>),
      IncI>>
    \o [i \in 1..Len(e.statements) |-> StmtI(e.statements[i])]
PrintBlock(e) ==
    <<FmtI(<<"Block", ":", "\n">>),
      IncI>>
    \o [i \in 1..Len(e.statements) |-> StmtI(e.statements[i])]
    \o <<DecI>>

PrintBooleanLiteral(e) ==
    <<FmtI(<<"Boolean Literal", ":", " ", IF e.value THEN "true" ELSE "false", "\n">>)>>

PrintCharLiteral(e) ==
    <<FmtI(<<"Character Literal", ":", " ">> \o e.value \o <<"\n">>)>>

\* f64's Display of a whole number writes its digits: 1.0 is "1".
PrintNumberLiteral(e) ==
    <<FmtI(<<"Number Literal", ":", " ", ToString(e.value), "\n">>)>>

PrintStringLiteral(e) ==
    <<FmtI(<<"String Literal", ":", " ">> \o e.value \o <<"\n">>)>>

PrintFunctionCall(e) ==
    <<FmtI(<<"Function Call", "\n">>),
      IncI,
      FmtI(<<"Callee", ":", "\n">>),
      ExprI(e.callee),
      FmtI(<<"Arguments", ":", "\n">>)>>
    \o [i \in 1..Len(e.args) |-> ExprI(e.args[i])]
    \o <<DecI>>

PrintVariable_withId(e) ==
    <<FmtI(<<"Variable", ":", " ">> \o e.name
           \o <<"#", ToString(e.expression_id), "\n">>)>>
PrintVariable(e) ==
    <<FmtI(<<"Variable", ":", " ">> \o e.name \o <<"\n">>)>>

\* else_branch: Option<Box<Expression>> is <<>> (None) or <<e>> (Some(e))
PrintIf_noElse(e) ==
    <<FmtI(<<"If Statement", ":", "\n">>),
      IncI,
      FmtI(<<"Condition", ":", "\n">>),
      ExprI(e.condition),
      FmtI(<<"Then Branch", ":", "\n">>),
      ExprI(e.then_branch),
      DecI>>
PrintIf(e) ==
    <<FmtI(<<"If Statement", ":", "\n">>),
      IncI,
      FmtI(<<"Condition", ":", "\n">>),
      ExprI(e.condition),
      FmtI(<<"Then Branch", ":", "\n">>),
      ExprI(e.then_branch)>>
    \o When(e.else_branch # <<>>,
            <<FmtI(<<"Else Branch", ":", "\n">>), ExprI(e.else_branch[1])>>)
    \o <<DecI>>

PrintLoopInfinite(e) ==
    <<FmtI(<<"Infinite Loop", ":", "\n">>),
      IncI,
      ExprI(e.body),
      DecI>>

PrintLoopWhile(e) ==
    <<FmtI(<<"While Loop", ":", "\n">>),
      IncI,
      FmtI(<<"Condition", ":", "\n">>),
      ExprI(e.condition),
      FmtI(<<"Body", ":", " ">>),
      ExprI(e.body),
      DecI>>

PrintLoopIterator(e) ==
    <<FmtI(<<"Iterator Loop", ":", "\n">>),
      IncI,
      FmtI(<<"Mutability", ":", " ", MutabilityText(e.mutability), "\n">>),
      FmtI(<<"Iterator", ":", " ">> \o e.iterator \o <<"\n">>),
      FmtI(<<"Iterable", ":", "\n">>),
      ExprI(e.iterable),
      FmtI(<<"Body", ":", " ">>),
      ExprI(e.body),
      DecI>>

PrintMemberAccess(e) ==
    <<FmtI(<<"Member Access", ":", "\n">>),
      IncI,
      FmtI(<<"Object", ":", "\n">>),
      ExprI(e.object),
      FmtI(<<"Member", ":", " ">> \o e.member \o <<"\n">>),
      DecI>>

PrintArray(e) ==
    <<FmtI(<<"Array", ":", "\n">>),
      IncI,
      FmtTypeI(<<"Type", ":", " ">>, e.array_type, <<"\n">>),
      FmtI(<<"Size", ":", "\n">>),
      ExprI(e.size),
      FmtI(<<"Initial Value", ":", "\n">>),
      ExprI(e.initial_value),
      DecI>>

PrintStructCreation(e) ==
    <<FmtI(<<"Struct Creation", ":", "\n">>),
      IncI,
      FmtTypeI(<<"Type", ":", " ">>, e.struct_type, <<"\n">>),
      FmtI(<<"Fields", ":", "\n">>)>>
    \o Concat([i \in 1..Len(e.fields) |->
                 <<FmtI(e.fields[i].name \o <<":", "\n">>),
                   IncI,
                   ExprI(e.fields[i].value),
                   DecI>>])
    \o <<DecI>>

PrintExpressionBody(e) ==
    CASE e.kind = "Assignment" -> PrintAssignment(e)
      [] e.kind = "BinaryOperation" -> PrintBinaryOperation(e)
      [] e.kind = "UnaryOperation" -> PrintUnaryOperation(e)
      [] e.kind = "Block" -> PrintBlock(e)
      [] e.kind = "BooleanLiteral" -> PrintBooleanLiteral(e)
      [] e.kind = "CharLiteral" -> PrintCharLiteral(e)
      [] e.kind = "NumberLiteral" -> PrintNumberLiteral(e)
      [] e.kind = "StringLiteral" -> PrintStringLiteral(e)
      [] e.kind = "FunctionCall" -> PrintFunctionCall(e)
      [] e.kind = "Variable" -> PrintVariable(e)
      [] e.kind = "If" -> PrintIf(e)
      [] e.kind = "LoopInfinite" -> PrintLoopInfinite(e)
      [] e.kind = "LoopWhile" -> PrintLoopWhile(e)
      [] e.kind = "LoopIterator" -> PrintLoopIterator(e)
      [] e.kind = "MemberAccess" -> PrintMemberAccess(e)
      [] e.kind = "Array" -> PrintArray(e)
      [] e.kind = "StructCreation" -> PrintStructCreation(e)

----------------------------------------------------------------------------
(* ast_printer.rs: print_statement                                         *)

PrintStatementExpression_always(s) ==
    <<FmtI(<<"Expression", ":", "\n">>),
      IncI,
      ExprI(s.expression),
      FmtI(<<"Result", ":", " ", "true", "\n">>),
      DecI>>
PrintStatementExpression(s) ==
    <<FmtI(<<"Expression", ":", "\n">>),
      IncI,
      ExprI(s.expression)>>
    \o When(s.result, <<FmtI(<<"Result", ":", " ", "true", "\n">>)>>)
    \o <<DecI>>

\* value: Option<Box<Expression>> is <<>> (None) or <<e>> (Some(e))
PrintReturn(s) ==
    <<FmtI(<<"Return", ":", "\n">>),
      IncI>>
    \o (IF s.value # <<>>
        THEN <<ExprI(s.value[1])>>
        ELSE <<FmtI(<<"No value", "\n">>)>>)
    \o <<DecI>>

PrintVariableDeclaration(s) ==
    <<FmtI(<<"Variable Declaration", ":", " ">> \o s.name \o <<"\n">>),
      IncI,
      FmtI(<<"Mutability", ":", " ", MutabilityText(s.mutability), "\n">>),
      FmtTypeI(<<"Type", ":", " ">>, s.variable_type, <<"\n">>),
      FmtI(<<"Value", ":", "\n">>),
      ExprI(s.value),
      DecI>>

PrintStatementBody(s) ==
    CASE s.kind = "Declaration" -> <<DeclI(s.declaration)>>
      [] s.kind = "Break" -> <<FmtI(<<"Break", "\n">>)>>
      [] s.kind = "Continue" -> <<FmtI(<<"Continue", "\n">>)>>
      [] s.kind = "Expression" -> PrintStatementExpression(s)
      [] s.kind = "Return" -> PrintReturn(s)
      [] s.kind = "VariableDeclaration" -> PrintVariableDeclaration(s)

----------------------------------------------------------------------------
(* Running a body: the calls among print_type, print_declaration,          *)
(* print_expression and print_statement.                                   *)

\* The statements of the print_* function fn for node.
BodyOf(fn, node) ==
    CASE fn = "print_type" -> PrintTypeBody(node)
      [] fn = "print_declaration" -> PrintDeclarationBody(node)
      [] fn = "print_expression" -> PrintExpressionBody(node)
      [] fn = "print_statement" -> PrintStatementBody(node)

RECURSIVE Exec(_, _), Call(_, _, _)

\* The value of a call that has run: every later use reads the same result.
Once(results) == CHOOSE res \in results : TRUE

\* fmt_indent!(self, "<pre>{}<post>", self.print_type(ty)): the macro writes
\* the guides from self.indent, then format! calls print_type.
FmtType(r, i, t) ==
    LET val == i.pre \o t.str \o i.post
        out == FmtIndent(r.st.indent, val)
    IN  R(r.str \o out,
          [t.st EXCEPT !.segs =
              Append(@, [depth |-> r.st.indent, val |-> val, out |-> out])])

ExecFmtType(r, i) ==
    Once({FmtType(r, i, t) : t \in {Call(r.st, "print_type", i.ty)}})

ExecOne(r, i) ==
    CASE i.op = "fmt" -> Push(r, i.val)
      [] i.op = "fmt_type" -> ExecFmtType(r, i)
      [] i.op = "raw" -> R(r.str \o i.val, r.st)
      [] i.op = "inc" -> Inc(r)
      [] i.op = "dec" -> Dec(r)
      [] OTHER -> Once({Then(r, sub) : sub \in {Call(r.st, i.op, i.node)}})

\* The statements of a body, one after the other.
Exec(r, ops) ==
    IF ops = <<>> THEN r
    ELSE Once({Exec(next, rest) : next \in {ExecOne(r, Head(ops))}, rest \in {Tail(ops)}})

\* A call of fn on node in state st: its String and the state it leaves.
Call(st, fn, node) ==
    Once({Exit(r, Len(st.log) + 1) :
             r \in {Exec(R(<<>>, Enter(st, fn, node)), BodyOf(fn, node))}})

PrintType(st, ty) == Call(st, "print_type", ty)
PrintDeclaration(st, d) == Call(st, "print_declaration", d)
PrintExpression(st, e) == Call(st, "print_expression", e)
PrintStatement(st, s) == Call(st, "print_statement", s)

----------------------------------------------------------------------------
(* ast.rs: the node kinds.  A Vec is a sequence, an Option a sequence of   *)
(* at most one element, a String a token sequence.                         *)

TPrim(kind) == [kind |-> kind]
TIdentifier(name, generics) == [kind |-> "Identifier", name |-> name, generics |-> generics]
TArray(of) == [kind |-> "Array", of |-> of]
TFunction(params, return_type) ==
    [kind |-> "Function", params |-> params, return_type |-> return_type]

Block(statements) == [kind |-> "Block", statements |-> statements]
NumberLiteral(value) == [kind |-> "NumberLiteral", value |-> value]
StringLiteral(value) == [kind |-> "StringLiteral", value |-> value]
CharLiteral(value) == [kind |-> "CharLiteral", value |-> value]
BooleanLiteral(value) == [kind |-> "BooleanLiteral", value |-> value]
Variable(name, expression_id) ==
    [kind |-> "Variable", name |-> name, expression_id |-> expression_id]
FunctionCall(callee, args) == [kind |-> "FunctionCall", callee |-> callee, args |-> args]
BinaryOperation(left, operator, right) ==
    [kind |-> "BinaryOperation", left |-> left, operator |-> operator, right |-> right]
UnaryOperation(operator, operand) ==
    [kind |-> "UnaryOperation", operator |-> operator, operand |-> operand]
Assignment(name, value, expression_id) ==
    [kind |-> "Assignment", name |-> name, value |-> value,
     expression_id |-> expression_id]
MemberAccess(object, member) ==
    [kind |-> "MemberAccess", object |-> object, member |-> member]
ArrayExpr(array_type, size, initial_value) ==
    [kind |-> "Array", array_type |-> array_type, size |-> size,
     initial_value |-> initial_value]
StructCreation(struct_type, fields) ==
    [kind |-> "StructCreation", struct_type |-> struct_type, fields |-> fields]
If(condition, then_branch, else_branch) ==
    [kind |-> "If", condition |-> condition, then_branch |-> then_branch,
     else_branch |-> else_branch]
LoopWhile(condition, body) ==
    [kind |-> "LoopWhile", condition |-> condition, body |-> body]
LoopInfinite(body) == [kind |-> "LoopInfinite", body |-> body]
LoopIterator(mutability, iterator, iterable, body) ==
    [kind |-> "LoopIterator", mutability |-> mutability, iterator |-> iterator,
     iterable |-> iterable, body |-> body]

StmtDeclaration(declaration) == [kind |-> "Declaration", declaration |-> declaration]
StmtExpression(expression, result) ==
    [kind |-> "Expression", expression |-> expression, result |-> result]
VariableDeclaration(mutability, name, variable_type, value) ==
    [kind |-> "VariableDeclaration", mutability |-> mutability, name |-> name,
     variable_type |-> variable_type, value |-> value]
Break == [kind |-> "Break"]
Continue == [kind |-> "Continue"]
Return(value) == [kind |-> "Return", value |-> value]

FunctionParameter(name, param_type) == [name |-> name, param_type |-> param_type]
Function(name, params, generic_args, return_type, body) ==
    [kind |-> "Function", name |-> name, params |-> params,
     generic_args |-> generic_args, return_type |-> return_type, body |-> body]
Struct(name, elements, generic_args) ==
    [kind |-> "Struct", name |-> name, elements |-> elements,
     generic_args |-> generic_args]
TypeDeclaration(name, generic_args, alias) ==
    [kind |-> "TypeDeclaration", name |-> name, generic_args |-> generic_args,
     alias |-> alias]
Import(path) == [kind |-> "Import", path |-> path]

ElemDeclaration(declaration) == [kind |-> "Declaration", declaration |-> declaration]
ElemField(name, field_type) ==
    [kind |-> "Field", name |-> name, field_type |-> field_type]

Program(declarations) == [declarations |-> declarations]

BinaryOperators ==
    {"Add", "Subtract", "Multiply", "Divide", "Modulus", "And", "Or", "Equal",
     "NotEqual", "LessThan", "GreaterThan", "LessThanOrEqual", "GreaterThanOrEqual"}
UnaryOperators == {"Negate", "Not"}
Mutabilities == {"Mutable", "Immutable"}
PrimitiveKinds ==
    {"U8", "U16", "U32", "U64", "I8", "I16", "I32", "I64", "F32", "F64",
     "Boolean", "Character", "Nil"}

----------------------------------------------------------------------------
(* The programs print_program is called on.                                *)

U8 == TPrim("U8")
Nil == TPrim("Nil")
TypeT == TIdentifier(<<"T">>, <<>>)

Types ==
    {TPrim(k) : k \in PrimitiveKinds}
    \cup {TypeT,
          TIdentifier(<<"Box">>, <<U8>>),
          TIdentifier(<<"Map">>, <<TPrim("I32"), TArray(U8)>>),
          TArray(U8),
          TArray(TArray(Nil)),
          TArray(TFunction(<<U8>>, Nil)),
          TFunction(<<>>, Nil),
          TFunction(<<U8, TArray(TPrim("Boolean"))>>, TypeT),
          TFunction(<<TFunction(<<>>, Nil)>>, TArray(U8))}

SomeTypes == {U8, TArray(U8), TFunction(<<U8>>, Nil)}

ExpressionIds == {0, 7}

Leaves ==
    {NumberLiteral(1), NumberLiteral(42),
     StringLiteral(<<"hi">>), StringLiteral(<<"k", ":", "v">>),
     CharLiteral(<<"c">>), BooleanLiteral(TRUE), BooleanLiteral(FALSE)}
    \cup {Variable(<<"x">>, id) : id \in ExpressionIds}

Operands == {NumberLiteral(1), Variable(<<"x">>, 7)}

Simple ==
    {Assignment(<<"x">>, v, id) : v \in Operands, id \in ExpressionIds}
    \cup {BinaryOperation(NumberLiteral(1), op, Variable(<<"x">>, 0)) :
             op \in BinaryOperators}
    \cup {UnaryOperation(op, v) : op \in UnaryOperators, v \in Operands}
    \cup {FunctionCall(Variable(<<"f">>, 0), args) :
             args \in {<<>>, <<NumberLiteral(1)>>,
                       <<Variable(<<"x">>, 7), NumberLiteral(1)>>}}
    \cup {If(BooleanLiteral(TRUE), v, else_branch) :
             v \in Operands, else_branch \in {<<>>, <<NumberLiteral(42)>>}}
    \cup {MemberAccess(v, <<"len">>) : v \in Operands}
    \cup {ArrayExpr(t, NumberLiteral(42), v) : t \in SomeTypes, v \in Operands}
    \cup {StructCreation(TIdentifier(<<"Point">>, <<>>), fields) :
             fields \in {<<>>, <<[name |-> <<"x">>, value |-> NumberLiteral(1)]>>,
                         <<[name |-> <<"x">>, value |-> NumberLiteral(1)],
                           [name |-> <<"y">>, value |-> Variable(<<"x">>, 7)]>>}}

Imports == {Import(path) : path \in {<<>>, <<<<"a">>>>, <<<<"a">>, <<"b">>, <<"c">>>>}}

GenericArgLists == {<<>>, << <<"T">> >>, << <<"T">>, <<"U">> >>}

TypeDeclarations ==
    {TypeDeclaration(<<"Alias">>, g, t) : g \in GenericArgLists, t \in Types}

Statements ==
    {StmtExpression(e, result) :
        e \in Leaves \cup {Assignment(<<"x">>, NumberLiteral(1), 7),
                           FunctionCall(Variable(<<"f">>, 0), <<NumberLiteral(1)>>)},
        result \in BOOLEAN}
    \cup {Break, Continue, Return(<<>>), Return(<<Variable(<<"x">>, 7)>>)}
    \cup {VariableDeclaration(m, <<"v">>, t, NumberLiteral(1)) :
             m \in Mutabilities, t \in SomeTypes}
    \cup {StmtDeclaration(d) :
             d \in {Import(<<<<"a">>, <<"b">>>>),
                    TypeDeclaration(<<"Alias">>, <<>>, TArray(U8))}}

TwoStatements ==
    {<<a, b>> :
        a \in {StmtExpression(Variable(<<"x">>, 7), FALSE),
               VariableDeclaration("Mutable", <<"v">>, TArray(U8), NumberLiteral(1))},
        b \in {StmtExpression(Variable(<<"x">>, 0), TRUE), Return(<<>>), Break}}

Blocks ==
    {Block(ss) : ss \in {<<>>} \cup {<<s1>> : s1 \in Statements} \cup TwoStatements}

InnerBlock ==
    Block(<<StmtExpression(Assignment(<<"x">>, Variable(<<"x">>, 7), 0), FALSE),
            StmtExpression(Variable(<<"x">>, 7), TRUE)>>)

Loops ==
    {LoopInfinite(Block(<<Break>>)), LoopInfinite(NumberLiteral(1)),
     LoopWhile(BooleanLiteral(TRUE), Block(<<Continue>>)),
     LoopWhile(Variable(<<"x">>, 7), InnerBlock)}
    \cup {LoopIterator(m, <<"i">>, Variable(<<"xs">>, 0), InnerBlock) :
             m \in Mutabilities}

Nested ==
    {If(BinaryOperation(Variable(<<"x">>, 7), "Equal", NumberLiteral(1)),
        InnerBlock, <<Block(<<Return(<<UnaryOperation("Not", BooleanLiteral(FALSE))>>)>>)>>),
     Block(<<StmtExpression(InnerBlock, TRUE)>>),
     Block(<<StmtExpression(LoopInfinite(InnerBlock), FALSE),
             StmtExpression(If(BooleanLiteral(TRUE), InnerBlock, <<>>), TRUE)>>),
     FunctionCall(MemberAccess(Variable(<<"p">>, 7), <<"get">>),
                  <<StructCreation(TIdentifier(<<"Box">>, <<U8>>),
                                   <<[name |-> <<"v">>, value |-> InnerBlock]>>)>>),
     Block(<<StmtDeclaration(
                Function(<<"inner">>, <<FunctionParameter(<<"a">>, U8)>>, <<>>, U8,
                         Variable(<<"a">>, 7)))>>)}

Bodies == Leaves \cup Simple \cup Blocks \cup Loops \cup Nested

ParamLists ==
    {<<>>,
     <<FunctionParameter(<<"a">>, U8)>>,
     <<FunctionParameter(<<"a">>, TArray(U8)),
       FunctionParameter(<<"b">>, TIdentifier(<<"Box">>, <<U8>>))>>,
     <<FunctionParameter(<<"f">>, TFunction(<<U8>>, Nil)),
       FunctionParameter(<<"n">>, TArray(TArray(Nil)))>>}

Functions ==
    {Function(<<"main">>, <<>>, <<>>, Nil, body) : body \in Bodies}
    \cup {Function(<<"f">>, ps, g, t, body) :
             ps \in ParamLists, g \in {<<>>, << <<"T">> >>},
             t \in SomeTypes \cup {Nil},
             body \in {Variable(<<"x">>, 7), InnerBlock}}

Method ==
    Function(<<"get">>,
             <<FunctionParameter(<<"self">>, TypeT),
               FunctionParameter(<<"at">>, TArray(U8))>>,
             <<>>, U8, InnerBlock)

Run ==
    Function(<<"run">>, <<FunctionParameter(<<"cb">>, TFunction(<<U8>>, Nil))>>,
             << <<"T">> >>, TArray(U8),
             Block(<<StmtExpression(
                        If(BooleanLiteral(TRUE), NumberLiteral(1),
                           <<Variable(<<"x">>, 7)>>), FALSE),
                     Return(<<>>)>>))

Structs ==
    {Struct(<<"Point">>, elements, g) :
        g \in {<<>>, << <<"T">> >>},
        elements \in
            {<<>>,
             <<ElemField(<<"x">>, U8)>>,
             <<ElemField(<<"x">>, TArray(U8)), ElemField(<<"f">>, TFunction(<<U8>>, Nil))>>,
             <<ElemField(<<"x">>, U8), ElemDeclaration(Method)>>,
             <<ElemDeclaration(Import(<<<<"a">>>>)), ElemField(<<"y">>, TypeT)>>,
             <<ElemDeclaration(Run)>>,
             <<ElemDeclaration(Struct(<<"Inner">>, <<ElemDeclaration(Method)>>, <<>>)),
               ElemDeclaration(TypeDeclaration(<<"Alias">>, << <<"T">> >>, U8))>>}}

Declarations == Imports \cup TypeDeclarations \cup Structs \cup Functions

\* The declarations that programs of several declarations are built from.
CoreDeclarations ==
    {Import(<<<<"a">>, <<"b">>, <<"c">>>>),
     TypeDeclaration(<<"Alias">>, << <<"T">> >>, TArray(U8)),
     TypeDeclaration(<<"Byte">>, <<>>, U8),
     Struct(<<"Point">>, <<ElemField(<<"x">>, U8), ElemDeclaration(Method)>>, <<>>),
     Function(<<"main">>, <<FunctionParameter(<<"a">>, TArray(U8))>>, <<>>, Nil, InnerBlock),
     Function(<<"main">>, <<>>, <<>>, U8, Variable(<<"x">>, 7))}

RECURSIVE SeqsUpTo(_, _)
SeqsUpTo(S, n) ==
    IF n = 0 THEN {<<>>}
    ELSE LET shorter == SeqsUpTo(S, n - 1)
         IN  shorter \cup {Append(q, d) : q \in shorter, d \in S}

Programs ==
    {Program(ds) : ds \in {<<d>> : d \in Declarations} \cup SeqsUpTo(CoreDeclarations, MaxDecls)}

----------------------------------------------------------------------------
(* ASTPrinter::new and print_program                                       *)

EmptyProgram == Program(<<>>)

\* The state the print_* functions read and write.
St ==
    [indent |-> indent, incs |-> incs, decs |-> decs, neg |-> neg,
     log |-> log, segs |-> segs]

\* self.indent = 0
ResetIndent_bump(n) == n + 1
ResetIndent(n) == 0

Init ==
    /\ indent = 0
    /\ pc = "idle"
    /\ program = EmptyProgram
    /\ idx = 1
    /\ output = <<>>
    /\ calls = 0
    /\ incs = 0
    /\ decs = 0
    /\ neg = FALSE
    /\ log = <<>>
    /\ segs = <<>>

\* ASTPrinter::new(): the caller replaces the instance by a fresh one.
New ==
    /\ pc = "idle"
    /\ calls > 0
    /\ indent' = 0
    /\ calls' = 0
    /\ UNCHANGED <<pc, program, idx, output, incs, decs, neg, log, segs>>

\* print_program(program), up to the for loop
PrintProgramCall(P) ==
    /\ pc = "idle"
    /\ calls < MaxCalls
    /\ indent' = ResetIndent(indent)
    /\ output' = <<>>
    /\ program' = P
    /\ idx' = 1
    /\ pc' = "loop"
    /\ incs' = 0
    /\ decs' = 0
    /\ neg' = FALSE
    /\ log' = <<>>
    /\ segs' = <<>>
    /\ UNCHANGED calls

\* one iteration: output.push_str(&self.print_declaration(declaration))
PrintProgramStep ==
    /\ pc = "loop"
    /\ idx <= Len(program.declarations)
    /\ \E s0 \in {St} : \E r \in {PrintDeclaration(s0, program.declarations[idx])} :
           /\ output' = output \o r.str
           /\ indent' = r.st.indent
           /\ incs' = r.st.incs
           /\ decs' = r.st.decs
           /\ neg' = r.st.neg
           /\ log' = r.st.log
           /\ segs' = r.st.segs
    /\ idx' = idx + 1
    /\ UNCHANGED <<pc, program, calls>>

\* The loop is over: output is what print_program returns.
Returning == pc = "loop" /\ idx > Len(program.declarations)

\* print_program returns output to its caller; its locals are gone.
PrintProgramReturn ==
    /\ Returning
    /\ pc' = "idle"
    /\ calls' = calls + 1
    /\ program' = EmptyProgram
    /\ idx' = 1
    /\ output' = <<>>
    /\ incs' = 0
    /\ decs' = 0
    /\ neg' = FALSE
    /\ log' = <<>>
    /\ segs' = <<>>
    /\ UNCHANGED indent

Next ==
    \/ New
    \/ \E P \in Programs : PrintProgramCall(P)
    \/ PrintProgramStep
    \/ PrintProgramReturn

Spec == Init /\ [][Next]_vars

\* A call that has started runs to its return: the traversal is synchronous.
FairSpec == Spec /\ WF_vars(PrintProgramStep) /\ WF_vars(PrintProgramReturn)

----------------------------------------------------------------------------
(* print_program on a freshly created instance, as one evaluation          *)

\* ASTPrinter::new(), with an empty history
NewPrinter ==
    [indent |-> 0, incs |-> 0, decs |-> 0, neg |-> FALSE, log |-> <<>>, segs |-> <<>>]

\* ASTPrinter::new().print_program(P): the String and the state it leaves
PrintProgramFresh(P) ==
    Exec(R(<<>>, [NewPrinter EXCEPT !.indent = ResetIndent(@)]),
         [i \in 1..Len(P.declarations) |-> DeclI(P.declarations[i])])

----------------------------------------------------------------------------
(* Properties                                                              *)

\* C1: during one print_program call the increments of the depth counter
\* equal its decrements, and the counter is zero when the traversal starts
\* and zero when print_program returns.
C1_DepthBalanced ==
    /\ (pc = "loop" /\ idx = 1) => (indent = 0 /\ incs = 0 /\ decs = 0)
    /\ Returning => (incs = decs /\ indent = 0)
    /\ pc = "idle" => indent = 0

\* A second call on the same instance returns after a traversal that nested
\* blocks inside two declarations.
C1_Witness ==
    /\ Returning
    /\ calls > 0
    /\ Len(program.declarations) = 2
    /\ incs > 3
    /\ \E k \in DOMAIN log : log[k].depth > 2

\* C2: whatever calls were made before on the instance, print_program(P)
\* returns the string that print_program(P) returns on a new instance.
C2_Deterministic ==
    Returning => output = PrintProgramFresh(program).str

\* A call returns a non-empty, nested rendering on an instance that has
\* already served a call.
C2_Witness ==
    /\ Returning
    /\ calls > 0
    /\ output # <<>>
    /\ \E k \in DOMAIN log : log[k].depth > 1

----------------------------------------------------------------------------
(* The text the properties speak of                                        *)

Markers == {ANSI_GRAY, ANSI_BOLD, ANSI_RESET}

GuideRun(d) == [i \in 1..d |-> "|  "]

\* muted marker, d guide tokens, reset marker
Prefix(d) == <<ANSI_GRAY>> \o GuideRun(d) \o <<ANSI_RESET>>

\* a line "header:rest" at depth d
Line(d, header, rest) ==
    Prefix(d) \o <<ANSI_BOLD>> \o header \o <<ANSI_RESET, ":">> \o rest

\* a text without colon at depth d: all of it is inside the bold span
Plain(d, text) == Prefix(d) \o <<ANSI_BOLD>> \o text \o <<ANSI_RESET>>

\* C3 as the specification states it: a Type::Array renders as "Array of "
\* and its element, inline, with no line break and no indentation guide
\* before it.
C3_ArrayInline ==
    Returning =>
        \A k \in DOMAIN log :
            (log[k].fn = "print_type" /\ log[k].node.kind = "Array") =>
                log[k].str = <<"Array of", " ">> \o log[k + 1].str

\* C3 as the code has it: a Type::Array at depth d renders as a line break,
\* the prefix of depth d, bold "Array of ", and its element rendered at
\* depth d + 1.
C3_ArrayOnNewLine ==
    Returning =>
        \A k \in DOMAIN log :
            (log[k].fn = "print_type" /\ log[k].node.kind = "Array") =>
                /\ k + 1 \in DOMAIN log
                /\ log[k + 1].fn = "print_type"
                /\ log[k + 1].node = log[k].node.of
                /\ log[k + 1].depth = log[k].depth + 1
                /\ log[k].str =
                      <<"\n">> \o Plain(log[k].depth, <<"Array of", " ">>)
                      \o log[k + 1].str

\* An array of arrays is rendered below the top level.
C3_Witness ==
    /\ Returning
    /\ \E k \in DOMAIN log :
          /\ log[k].fn = "print_type"
          /\ log[k].node.kind = "Array"
          /\ log[k].node.of.kind = "Array"
          /\ log[k].depth > 0

\* The lines of output: the tokens between two line breaks.  A reset marker
\* right after a line break closes the bold span of the line before it.
LineStart(e) ==
    LET before == {i \in 1..(e - 1) : output[i] = "\n"}
        b == IF before = {} THEN 1
             ELSE (CHOOSE i \in before : \A j \in before : j <= i) + 1
    IN  IF b < e /\ output[b] = ANSI_RESET THEN b + 1 ELSE b

OutputLines ==
    {SubSeq(output, LineStart(e), e - 1) : e \in {i \in DOMAIN output : output[i] = "\n"}}

\* prefix, bold header, reset, and ": " with the rest when there is a rest
LineShape(line) ==
    \E d \in 0..Len(line) : \E h \in (d + 4)..(Len(line) + 1) :
        /\ Len(line) >= d + 3
        /\ line[1] = ANSI_GRAY
        /\ \A i \in 2..(d + 1) : line[i] = "|  "
        /\ line[d + 2] = ANSI_RESET
        /\ line[d + 3] = ANSI_BOLD
        /\ \A i \in (d + 4)..(h - 1) : line[i] \notin Markers \cup {":"}
        /\ \/ h = Len(line) + 1
           \/ /\ line[h] = ANSI_RESET
              /\ \/ h = Len(line)
                 \/ /\ line[h + 1] = ":"
                    /\ h + 1 = Len(line) \/ line[h + 2] = " "
                    /\ \A i \in (h + 2)..Len(line) : line[i] \notin Markers

\* C4 as the specification states it: every line of the output is one
\* prefix, one bold header and, when there is content after the header,
\* ": " and that content.
C4_EveryLineShaped ==
    Returning => \A line \in OutputLines : LineShape(line)

\* One expansion of fmt_indent! at depth d on the text val.
SegmentShape(seg) ==
    LET d == seg.depth
        val == seg.val
        out == seg.out
        colons == {i \in DOMAIN val : val[i] = ":"}
    IN  /\ Len(out) = Len(val) + d + 4
        /\ out[1] = ANSI_GRAY
        /\ \A i \in 1..d : out[1 + i] = "|  "
        /\ out[d + 2] = ANSI_RESET
        /\ out[d + 3] = ANSI_BOLD
        /\ IF colons = {}
           THEN /\ SubSeq(out, d + 4, d + 3 + Len(val)) = val
                /\ out[Len(out)] = ANSI_RESET
           ELSE LET c == CHOOSE i \in colons : \A j \in colons : i <= j
                IN  /\ SubSeq(out, d + 4, d + 2 + c) = SubSeq(val, 1, c - 1)
                    /\ out[d + 3 + c] = ANSI_RESET
                    /\ out[d + 4 + c] = ":"
                    /\ SubSeq(out, d + 5 + c, Len(out)) = SubSeq(val, c + 1, Len(val))

\* C4 as the code has it: every segment the formatting macro writes is the
\* muted marker, as many guide tokens as the depth counter holds, the reset
\* marker, the bold marker, the text up to its first colon (all of it when
\* it has none), the reset marker and, when the text has a colon, ":" and
\* the rest of the text; every muted marker of the output starts one.
C4_EverySegmentShaped ==
    Returning =>
        /\ \A n \in DOMAIN segs : SegmentShape(segs[n])
        /\ Cardinality({i \in DOMAIN output : output[i] = ANSI_GRAY}) = Len(segs)
        /\ output # <<>> => output[1] = ANSI_GRAY

\* Segments at depth three, with and without a colon, and a line that holds
\* two segments ("Body: " and the header of the body).
C4_Witness ==
    /\ Returning
    /\ \E n \in DOMAIN segs : segs[n].depth > 2 /\ ":" \notin {segs[n].val[i] : i \in DOMAIN segs[n].val}
    /\ \E n \in DOMAIN segs : segs[n].depth > 2 /\ ":" \in {segs[n].val[i] : i \in DOMAIN segs[n].val}
    /\ \E n \in DOMAIN segs : segs[n].val = <<"Body", ":", " ">>

----------------------------------------------------------------------------
(* ast.rs: the tree.  The declaration, statement and expression nodes      *)
(* directly below a node, in field order, each with the function that      *)
(* renders it.                                                             *)

NodeD(d) == [fn |-> "print_declaration", node |-> d]
NodeS(s) == [fn |-> "print_statement", node |-> s]
NodeE(e) == [fn |-> "print_expression", node |-> e]

Children(n) ==
    LET x == n.node
    IN  CASE n.fn = "print_declaration" ->
               (CASE x.kind = "Function" -> <<NodeE(x.body)>>
                  [] x.kind = "Struct" ->
                        Concat([i \in 1..Len(x.elements) |->
                                  IF x.elements[i].kind = "Declaration"
                                  THEN <<NodeD(x.elements[i].declaration)>>
                                  ELSE <<>>])
                  [] OTHER -> <<>>)
          [] n.fn = "print_statement" ->
               (CASE x.kind = "Declaration" -> <<NodeD(x.declaration)>>
                  [] x.kind = "Expression" -> <<NodeE(x.expression)>>
                  [] x.kind = "VariableDeclaration" -> <<NodeE(x.value)>>
                  [] x.kind = "Return" -> [i \in 1..Len(x.value) |-> NodeE(x.value[i])]
                  [] OTHER -> <<>>)
          [] n.fn = "print_expression" ->
               (CASE x.kind = "Block" ->
                        [i \in 1..Len(x.statements) |-> NodeS(x.statements[i])]
                  [] x.kind = "FunctionCall" ->
                        <<NodeE(x.callee)>> \o [i \in 1..Len(x.args) |-> NodeE(x.args[i])]
                  [] x.kind = "BinaryOperation" -> <<NodeE(x.left), NodeE(x.right)>>
                  [] x.kind = "UnaryOperation" -> <<NodeE(x.operand)>>
                  [] x.kind = "Assignment" -> <<NodeE(x.value)>>
                  [] x.kind = "MemberAccess" -> <<NodeE(x.object)>>
                  [] x.kind = "Array" -> <<NodeE(x.size), NodeE(x.initial_value)>>
                  [] x.kind = "StructCreation" ->
                        [i \in 1..Len(x.fields) |-> NodeE(x.fields[i].value)]
                  [] x.kind = "If" ->
                        <<NodeE(x.condition), NodeE(x.then_branch)>>
                        \o [i \in 1..Len(x.else_branch) |-> NodeE(x.else_branch[i])]
                  [] x.kind = "LoopWhile" -> <<NodeE(x.condition), NodeE(x.body)>>
                  [] x.kind = "LoopInfinite" -> <<NodeE(x.body)>>
                  [] x.kind = "LoopIterator" -> <<NodeE(x.iterable), NodeE(x.body)>>
                  [] OTHER -> <<>>)

\* The nodes of the tree below n, n first, in depth-first pre-order.
RECURSIVE PreOrder(_)
PreOrder(n) ==
    LET ch == Children(n)
    IN  <<n>> \o Concat([i \in 1..Len(ch) |-> PreOrder(ch[i])])

ProgramPreOrder(P) ==
    Concat([i \in 1..Len(P.declarations) |-> PreOrder(NodeD(P.declarations[i]))])

\* The program with every ExpressionId replaced by id.
RECURSIVE WithIds(_, _)
WithIds(n, id) ==
    LET x == n.node
        E(e) == WithIds(NodeE(e), id)
        S(t) == WithIds(NodeS(t), id)
        D(d) == WithIds(NodeD(d), id)
    IN  CASE n.fn = "print_declaration" ->
               (CASE x.kind = "Function" -> [x EXCEPT !.body = E(x.body)]
                  [] x.kind = "Struct" ->
                        [x EXCEPT !.elements =
                            [i \in 1..Len(x.elements) |->
                               IF x.elements[i].kind = "Declaration"
                               THEN [x.elements[i] EXCEPT
                                        !.declaration = D(x.elements[i].declaration)]
                               ELSE x.elements[i]]]
                  [] OTHER -> x)
          [] n.fn = "print_statement" ->
               (CASE x.kind = "Declaration" -> [x EXCEPT !.declaration = D(x.declaration)]
                  [] x.kind = "Expression" -> [x EXCEPT !.expression = E(x.expression)]
                  [] x.kind = "VariableDeclaration" -> [x EXCEPT !.value = E(x.value)]
                  [] x.kind = "Return" ->
                        [x EXCEPT !.value = [i \in 1..Len(x.value) |-> E(x.value[i])]]
                  [] OTHER -> x)
          [] n.fn = "print_expression" ->
               (CASE x.kind = "Variable" -> [x EXCEPT !.expression_id = id]
                  [] x.kind = "Assignment" ->
                        [x EXCEPT !.expression_id = id, !.value = E(x.value)]
                  [] x.kind = "Block" ->
                        [x EXCEPT !.statements =
                            [i \in 1..Len(x.statements) |-> S(x.statements[i])]]
                  [] x.kind = "FunctionCall" ->
                        [x EXCEPT !.callee = E(x.callee),
                                  !.args = [i \in 1..Len(x.args) |-> E(x.args[i])]]
                  [] x.kind = "BinaryOperation" ->
                        [x EXCEPT !.left = E(x.left), !.right = E(x.right)]
                  [] x.kind = "UnaryOperation" -> [x EXCEPT !.operand = E(x.operand)]
                  [] x.kind = "MemberAccess" -> [x EXCEPT !.object = E(x.object)]
                  [] x.kind = "Array" ->
                        [x EXCEPT !.size = E(x.size),
                                  !.initial_value = E(x.initial_value)]
                  [] x.kind = "StructCreation" ->
                        [x EXCEPT !.fields =
                            [i \in 1..Len(x.fields) |->
                               [x.fields[i] EXCEPT !.value = E(x.fields[i].value)]]]
                  [] x.kind = "If" ->
                        [x EXCEPT !.condition = E(x.condition),
                                  !.then_branch = E(x.then_branch),
                                  !.else_branch =
                                     [i \in 1..Len(x.else_branch) |-> E(x.else_branch[i])]]
                  [] x.kind = "LoopWhile" ->
                        [x EXCEPT !.condition = E(x.condition), !.body = E(x.body)]
                  [] x.kind = "LoopInfinite" -> [x EXCEPT !.body = E(x.body)]
                  [] x.kind = "LoopIterator" ->
                        [x EXCEPT !.iterable = E(x.iterable), !.body = E(x.body)]
                  [] OTHER -> x)

ProgramWithIds(P, id) ==
    Program([i \in 1..Len(P.declarations) |-> WithIds(NodeD(P.declarations[i]), id)])

----------------------------------------------------------------------------
(* Properties of the single rendering rules                                *)

\* The text print_type returns for ty when called at depth d.
TypeText(d, ty) == PrintType([NewPrinter EXCEPT !.indent = d], ty).str

\* The first call of print_expression after the k-th call, 0 if none.
NextExpression(k) ==
    LET after == {j \in (k + 1)..Len(log) : log[j].fn = "print_expression"}
    IN  IF after = {} THEN 0 ELSE CHOOSE j \in after : \A i \in after : j <= i

IsDeclaration(k, kind) ==
    log[k].fn = "print_declaration" /\ log[k].node.kind = kind

\* C5: a Function declaration rendered at depth d is the header
\* "Function: name" at depth d, then at depth d + 1 the "Parameters:" line,
\* one "- name: type" line per parameter in declared order, the
\* "Return Type: type" line and the "Body: " label, followed on the same
\* line by the body expression rendered at depth d + 1.
C5_FunctionLayout ==
    Returning =>
        \A k \in DOMAIN log :
            IsDeclaration(k, "Function") =>
                LET f == log[k].node
                    d == log[k].depth
                    b == NextExpression(k)
                IN  /\ b \in (k + 1)..log[k].last
                    /\ log[b].node = f.body
                    /\ log[b].depth = d + 1
                    /\ log[b].last = log[k].last
                    /\ log[k].str =
                          Line(d, <<"Function">>, <<" ">> \o f.name \o <<"\n">>)
                          \o Line(d + 1, <<"Parameters">>, <<"\n">>)
                          \o Concat([i \in 1..Len(f.params) |->
                                Line(d + 1, <<"-", " ">> \o f.params[i].name,
                                     <<" ">> \o TypeText(d + 1, f.params[i].param_type)
                                     \o <<"\n">>)])
                          \o Line(d + 1, <<"Return Type">>,
                                  <<" ">> \o TypeText(d + 1, f.return_type) \o <<"\n">>)
                          \o Line(d + 1, <<"Body">>, <<" ">>)
                          \o log[b].str

\* A function with two parameters and a block body is rendered inside a
\* struct, below the top level.
C5_Witness ==
    /\ Returning
    /\ \E k \in DOMAIN log :
          /\ IsDeclaration(k, "Function")
          /\ log[k].depth > 0
          /\ Len(log[k].node.params) = 2
          /\ log[k].node.body.kind = "Block"
          /\ log[k].node.body.statements # <<>>

\* The declaration, statement and expression nodes among the calls i..j.
Rendered(i, j) ==
    LET sel == SelectSeq(SubSeq(log, i, j), LAMBDA e : e.fn # "print_type")
    IN  [n \in 1..Len(sel) |-> [fn |-> sel[n].fn, node |-> sel[n].node]]

\* C6 (safety): the depth counter is never decremented below zero, every
\* call returns a rendering, the calls made for one node render the nodes
\* of its subtree once each in depth-first pre-order, and so do the calls
\* made for the declarations of the program handled so far.
C6_PreOrderOnce ==
    /\ ~neg
    /\ pc = "loop" =>
          /\ idx \in 1..(Len(program.declarations) + 1)
          /\ Rendered(1, Len(log)) =
                ProgramPreOrder(Program(SubSeq(program.declarations, 1, idx - 1)))
          /\ \A k \in DOMAIN log :
                /\ log[k].str # <<>>
                /\ log[k].last \in k..Len(log)
                /\ log[k].fn # "print_type" =>
                      Rendered(k, log[k].last) =
                         PreOrder([fn |-> log[k].fn, node |-> log[k].node])

\* C6: print_program always returns, with the nodes rendered once each in
\* depth-first pre-order and the depth counter never below zero.
C6_Total ==
    /\ [](C6_PreOrderOnce)
    /\ (pc = "loop") ~> Returning

\* A call returns after rendering a declaration nested in a struct, the
\* statements of its body, an If with an else branch and a function type.
C6_Witness ==
    /\ Returning
    /\ \E k \in DOMAIN log : log[k].fn = "print_declaration" /\ log[k].depth > 0
    /\ \E k \in DOMAIN log : log[k].fn = "print_statement" /\ log[k].depth > 1
    /\ \E k \in DOMAIN log :
          /\ log[k].fn = "print_expression"
          /\ log[k].node.kind = "If"
          /\ log[k].node.else_branch # <<>>
    /\ \E k \in DOMAIN log : log[k].fn = "print_type" /\ log[k].node.kind = "Function"

\* Ids that replace the ids of the program: one the programs use, one they
\* do not.
OtherIds == {0, 3}

IsExpression(k, kind) ==
    log[k].fn = "print_expression" /\ log[k].node.kind = kind

\* C7: the output for a program is the output for the same program with
\* any other ExpressionIds, and Variable and Assignment print the name only.
C7_IdsNeverPrinted ==
    Returning =>
        /\ \A id \in OtherIds :
              output = PrintProgramFresh(ProgramWithIds(program, id)).str
        /\ \A k \in DOMAIN log :
              /\ IsExpression(k, "Variable") =>
                    log[k].str =
                       Line(log[k].depth, <<"Variable">>,
                            <<" ">> \o log[k].node.name \o <<"\n">>)
              /\ IsExpression(k, "Assignment") =>
                    /\ k + 1 \in DOMAIN log
                    /\ log[k + 1].node = log[k].node.value
                    /\ log[k].str =
                          Line(log[k].depth, <<"Assignment">>, <<"\n">>)
                          \o Line(log[k].depth + 1, <<"Variable">>,
                                  <<" ">> \o log[k].node.name \o <<"\n">>)
                          \o Line(log[k].depth + 1, <<"Value">>, <<"\n">>)
                          \o log[k + 1].str

\* An assignment and a variable with different ids are rendered.
C7_Witness ==
    /\ Returning
    /\ \E k \in DOMAIN log :
          /\ IsExpression(k, "Assignment")
          /\ IsExpression(k + 1, "Variable")
          /\ log[k].node.expression_id # log[k + 1].node.expression_id
    /\ \A id \in OtherIds : ProgramWithIds(program, id) # program

IsStatement(k, kind) ==
    log[k].fn = "print_statement" /\ log[k].node.kind = kind

\* C8: a Statement::Expression at depth d is the "Expression:" line at
\* depth d, its expression rendered at depth d + 1 and, exactly when its
\* result flag is true, the line "Result: true" at depth d + 1 after the
\* whole expression.
C8_ResultLineIffFlag ==
    Returning =>
        \A k \in DOMAIN log :
            IsStatement(k, "Expression") =>
                LET s == log[k].node
                    d == log[k].depth
                IN  /\ k + 1 \in DOMAIN log
                    /\ log[k + 1].fn = "print_expression"
                    /\ log[k + 1].node = s.expression
                    /\ log[k + 1].depth = d + 1
                    /\ log[k + 1].last = log[k].last
                    /\ log[k].str =
                          Line(d, <<"Expression">>, <<"\n">>)
                          \o log[k + 1].str
                          \o (IF s.result
                              THEN Line(d + 1, <<"Result">>, <<" ", "true", "\n">>)
                              ELSE <<>>)

\* One block holds an expression statement with the flag and one without.
C8_Witness ==
    /\ Returning
    /\ \E k \in DOMAIN log : \E j \in DOMAIN log :
          /\ IsStatement(k, "Expression") /\ log[k].node.result
          /\ IsStatement(j, "Expression") /\ ~log[j].node.result
          /\ log[k].depth = log[j].depth
          /\ log[k].node.expression.kind \notin {"Variable", "NumberLiteral"}

\* C9: a TypeDeclaration at depth d is the line "Type Declaration: name" at
\* depth d, the line "Alias: type" at depth d + 1 and, exactly when it has
\* generic parameters, the line "Generic Arguments:" and one "- name" line
\* per parameter in declared order at depth d + 1; without parameters the
\* text "Generic Arguments" is not in its rendering.
C9_TypeDeclarationLayout ==
    Returning =>
        \A k \in DOMAIN log :
            IsDeclaration(k, "TypeDeclaration") =>
                LET t == log[k].node
                    d == log[k].depth
                    g == t.generic_args
                IN  /\ log[k].str =
                          Line(d, <<"Type Declaration">>, <<" ">> \o t.name \o <<"\n">>)
                          \o Line(d + 1, <<"Alias">>,
                                  <<" ">> \o TypeText(d + 1, t.alias) \o <<"\n">>)
                          \o (IF g # <<>>
                              THEN Line(d + 1, <<"Generic Arguments">>, <<"\n">>)
                                   \o Concat([i \in 1..Len(g) |->
                                         Plain(d + 1, <<"-", " ">> \o g[i] \o <<"\n">>)])
                              ELSE <<>>)
                    /\ g = <<>> =>
                          \A i \in DOMAIN log[k].str :
                              log[k].str[i] # "Generic Arguments"
                    /\ g = <<>> /\ Len(program.declarations) = 1 /\ k = 1 =>
                          \A i \in DOMAIN output : output[i] # "Generic Arguments"

\* One program holds a type declaration without generic parameters and one
\* with.
C9_Witness ==
    /\ Returning
    /\ \E k \in DOMAIN log : \E j \in DOMAIN log :
          /\ IsDeclaration(k, "TypeDeclaration") /\ log[k].node.generic_args = <<>>
          /\ IsDeclaration(j, "TypeDeclaration") /\ log[j].node.generic_args # <<>>

\* The segments s1..sn with "." between them.
Dotted(path) ==
    Concat([i \in 1..Len(path) |-> IF i = 1 THEN path[i] ELSE <<".">> \o path[i]])

\* C10: an Import at depth d is one line, the prefix of depth d, bold
\* "Import", reset, ": ", the segments joined by "." and a line break; the
\* call makes no nested call and does not move the depth counter; a program
\* that is one Import renders as that line at depth 0.
C10_ImportOneLine ==
    Returning =>
        /\ \A k \in DOMAIN log :
              IsDeclaration(k, "Import") =>
                  /\ log[k].str =
                        <<ANSI_GRAY>> \o GuideRun(log[k].depth)
                        \o <<ANSI_RESET, ANSI_BOLD, "Import", ANSI_RESET, ":", " ">>
                        \o Dotted(log[k].node.path) \o <<"\n">>
                  /\ Cardinality({i \in DOMAIN log[k].str : log[k].str[i] = "\n"}) = 1
                  /\ log[k].last = k
                  /\ log[k].incs = 0
        /\ (Len(program.declarations) = 1 /\ program.declarations[1].kind = "Import") =>
              /\ output =
                    <<ANSI_GRAY, ANSI_RESET, ANSI_BOLD, "Import", ANSI_RESET, ":", " ">>
                    \o Dotted(program.declarations[1].path) \o <<"\n">>
              /\ Len(log) = 1
              /\ incs = 0 /\ decs = 0 /\ indent = 0

\* A program that is one Import of three segments has been rendered.
C10_Witness ==
    /\ Returning
    /\ Len(program.declarations) = 1
    /\ program.declarations[1].kind = "Import"
    /\ Len(program.declarations[1].path) = 3
    /\ output # <<>>

----------------------------------------------------------------------------
(* Generic parameters of functions and structs                             *)

\* The tree below n with the generic_args of every Function and Struct
\* declaration replaced by g; those of a TypeDeclaration stay.
RECURSIVE WithGenerics(_, _)
WithGenerics(n, g) ==
    LET x == n.node
        E(e) == WithGenerics(NodeE(e), g)
        S(t) == WithGenerics(NodeS(t), g)
        D(d) == WithGenerics(NodeD(d), g)
    IN  CASE n.fn = "print_declaration" ->
               (CASE x.kind = "Function" ->
                        [x EXCEPT !.generic_args = g, !.body = E(x.body)]
                  [] x.kind = "Struct" ->
                        [x EXCEPT !.generic_args = g,
                                  !.elements =
                            [i \in 1..Len(x.elements) |->
                               IF x.elements[i].kind = "Declaration"
                               THEN [x.elements[i] EXCEPT
                                        !.declaration = D(x.elements[i].declaration)]
                               ELSE x.elements[i]]]
                  [] OTHER -> x)
          [] n.fn = "print_statement" ->
               (CASE x.kind = "Declaration" -> [x EXCEPT !.declaration = D(x.declaration)]
                  [] x.kind = "Expression" -> [x EXCEPT !.expression = E(x.expression)]
                  [] x.kind = "VariableDeclaration" -> [x EXCEPT !.value = E(x.value)]
                  [] x.kind = "Return" ->
                        [x EXCEPT !.value = [i \in 1..Len(x.value) |-> E(x.value[i])]]
                  [] OTHER -> x)
          [] n.fn = "print_expression" ->
               (CASE x.kind = "Assignment" -> [x EXCEPT !.value = E(x.value)]
                  [] x.kind = "Block" ->
                        [x EXCEPT !.statements =
                            [i \in 1..Len(x.statements) |-> S(x.statements[i])]]
                  [] x.kind = "FunctionCall" ->
                        [x EXCEPT !.callee = E(x.callee),
                                  !.args = [i \in 1..Len(x.args) |-> E(x.args[i])]]
                  [] x.kind = "BinaryOperation" ->
                        [x EXCEPT !.left = E(x.left), !.right = E(x.right)]
                  [] x.kind = "UnaryOperation" -> [x EXCEPT !.operand = E(x.operand)]
                  [] x.kind = "MemberAccess" -> [x EXCEPT !.object = E(x.object)]
                  [] x.kind = "Array" ->
                        [x EXCEPT !.size = E(x.size),
                                  !.initial_value = E(x.initial_value)]
                  [] x.kind = "StructCreation" ->
                        [x EXCEPT !.fields =
                            [i \in 1..Len(x.fields) |->
                               [x.fields[i] EXCEPT !.value = E(x.fields[i].value)]]]
                  [] x.kind = "If" ->
                        [x EXCEPT !.condition = E(x.condition),
                                  !.then_branch = E(x.then_branch),
                                  !.else_branch =
                                     [i \in 1..Len(x.else_branch) |-> E(x.else_branch[i])]]
                  [] x.kind = "LoopWhile" ->
                        [x EXCEPT !.condition = E(x.condition), !.body = E(x.body)]
                  [] x.kind = "LoopInfinite" -> [x EXCEPT !.body = E(x.body)]
                  [] x.kind = "LoopIterator" ->
                        [x EXCEPT !.iterable = E(x.iterable), !.body = E(x.body)]
                  [] OTHER -> x)

ProgramWithGenerics(P, g) ==
    Program([i \in 1..Len(P.declarations) |->
               WithGenerics(NodeD(P.declarations[i]), g)])

\* Lists that replace the generic parameters: none, and two names the
\* programs do not use.
OtherGenerics == {<<>>, << <<"X">>, <<"Y">> >>}

\* C11: the output for a program is the output for the same program with
\* any other generic parameter lists on its Function and Struct
\* declarations, those of TypeDeclarations left as they are.
C11_GenericsNeverPrinted ==
    Returning =>
        \A g \in OtherGenerics :
            output = PrintProgramFresh(ProgramWithGenerics(program, g)).str

\* A struct with generic parameters that holds a function with generic
\* parameters has been rendered.
C11_Witness ==
    /\ Returning
    /\ \E k \in DOMAIN log : \E j \in DOMAIN log :
          /\ IsDeclaration(k, "Struct") /\ log[k].node.generic_args # <<>>
          /\ IsDeclaration(j, "Function") /\ log[j].node.generic_args # <<>>
          /\ j \in (k + 1)..log[k].last
    /\ \A g \in OtherGenerics : ProgramWithGenerics(program, g) # program

====
